---- MODULE Spec2Model ----
(***************************************************************************)
(* Model of rails_api_search/server.py: the documentation search routine   *)
(* search_api_docs and the tool dispatcher call_tool around it.            *)
(*                                                                         *)
(* Text is kept as TLA+ strings; a character is a string of length one.    *)
(* An HTML document is kept as the element tree BeautifulSoup builds from  *)
(* it: the elements in document order, each with its tag, the text it      *)
(* holds directly (ahead of its children), its id attribute and its        *)
(* nesting depth.  The response's timestamp is left out.                   *)
(***************************************************************************)
EXTENDS Integers, Sequences, FiniteSets, TLC

VARIABLES
    pc,          \* where the request stands in call_tool / search_api_docs
    entry,       \* "call_tool" or "search_api_docs": the function invoked
    name,        \* call_tool's tool name
    arguments,   \* call_tool's argument payload
    fs,          \* the docs directory: path -> document, or Missing
    content,     \* search_api_docs: the parsed content
    query,       \* search_api_docs: query
    section,     \* search_api_docs: section (None when absent)
    limit,       \* search_api_docs: limit
    pos,         \* position of the for loop in soup.find_all(...)
    results,     \* the results list of search_api_docs
    detectRuns,  \* how often the catalog was scanned to detect a section
    response,    \* the dict search_api_docs returned
    error,       \* the McpError raised to the caller
    calls,       \* the collaborators call_tool has called, in order
    output       \* what call_tool returned

vars == << pc, entry, name, arguments, fs, content, query, section, limit,
           pos, results, detectRuns, response, error, calls, output >>

----------------------------------------------------------------------------
(* Bounds of the model. *)

\* Most elements in a generated document.
MaxElems == 3
\* Largest limit passed with a generated document (the smallest is 0).
MaxLimit == 3

----------------------------------------------------------------------------
(* Python values. *)

None == "<None>"
NoError == [code |-> "<none>", message |-> ""]
NoResponse == [matches |-> <<>>, total |-> -1, query |-> "", section |-> None]
Missing == << [tag |-> "<missing>", text |-> "", id |-> "", depth |-> 0] >>

\* raise McpError(code, message): the error the caller gets, with its code.
McpError(code, message) == [code |-> code, message |-> message]

\* str(x) of a str | None
StrOf(s) == IF s = None THEN "None" ELSE s

\* The truth value Python gives a str | None: None and "" are false.
Truthy(s) == s # None /\ s # ""

UpperCase == "ABCDEFGHIJKLMNOPQRSTUVWXYZ"
LowerCase == "abcdefghijklmnopqrstuvwxyz"
Whitespace == {" ", "\n", "\t"}

CharAt(s, i) == SubSeq(s, i, i)

\* The lower-case letter of each upper-case one.
LowerOf ==
    [c \in { CharAt(UpperCase, i) : i \in 1..Len(UpperCase) } |->
        CharAt(LowerCase, CHOOSE i \in 1..Len(UpperCase) : CharAt(UpperCase, i) = c)]

LowerChar(c) == IF c \in DOMAIN LowerOf THEN LowerOf[c] ELSE c

\* str.lower(): every character lower-cased (by halves, to keep the
\* evaluation shallow).
RECURSIVE Lower(_)
Lower(s) ==
    IF Len(s) = 0 THEN ""
    ELSE IF Len(s) = 1 THEN LowerChar(s)
    ELSE LET half == Len(s) \div 2
         IN  Lower(SubSeq(s, 1, half)) \o Lower(SubSeq(s, half + 1, Len(s)))

\* The places where sub occurs in text.
Occurrences(text, sub) ==
    { i \in 1..(Len(text) - Len(sub) + 1) : SubSeq(text, i, i + Len(sub) - 1) = sub }

\* sub in text
Contains(text, sub) == Occurrences(text, sub) # {}

\* str.strip()
RECURSIVE LStrip(_)
LStrip(s) ==
    IF s # "" /\ CharAt(s, 1) \in Whitespace THEN LStrip(SubSeq(s, 2, Len(s))) ELSE s

RECURSIVE RStrip(_)
RStrip(s) ==
    IF s # "" /\ CharAt(s, Len(s)) \in Whitespace
    THEN RStrip(SubSeq(s, 1, Len(s) - 1)) ELSE s

Strip(s) == RStrip(LStrip(s))

----------------------------------------------------------------------------
(* The section catalog, in its definition order. *)

RAILS_API_SECTIONS ==
    << [id |-> "abstractcontroller", name |-> "AbstractController"],
       [id |-> "actioncable", name |-> "ActionCable"],
       [id |-> "actioncontroller", name |-> "ActionController"],
       [id |-> "actiondispatch", name |-> "ActionDispatch"],
       [id |-> "actionmailbox", name |-> "ActionMailbox"],
       [id |-> "actionmailer", name |-> "ActionMailer"],
       [id |-> "actiontext", name |-> "ActionText"],
       [id |-> "actionview", name |-> "ActionView"],
       [id |-> "activejob", name |-> "ActiveJob"],
       [id |-> "activemodel", name |-> "ActiveModel"],
       [id |-> "activerecord", name |-> "ActiveRecord"],
       [id |-> "activestorage", name |-> "ActiveStorage"],
       [id |-> "activesupport", name |-> "ActiveSupport"],
       [id |-> "arel", name |-> "Arel"],
       [id |-> "mail", name |-> "Mail"],
       [id |-> "mime", name |-> "Mime"],
       [id |-> "minitest", name |-> "Minitest"],
       [id |-> "rails", name |-> "Rails"],
       [id |-> "array", name |-> "Array"],
       [id |-> "benchmark", name |-> "Benchmark"],
       [id |-> "bigdecimal", name |-> "BigDecimal"],
       [id |-> "class", name |-> "Class"],
       [id |-> "date", name |-> "Date"],
       [id |-> "dateandtime", name |-> "DateAndTime"],
       [id |-> "datetime", name |-> "DateTime"],
       [id |-> "delegator", name |-> "Delegator"],
       [id |-> "digest", name |-> "Digest"],
       [id |-> "erb", name |-> "ERB"],
       [id |-> "enumerable", name |-> "Enumerable"],
       [id |-> "exception", name |-> "Exception"],
       [id |-> "falseclass", name |-> "FalseClass"],
       [id |-> "file", name |-> "File"],
       [id |-> "float", name |-> "Float"],
       [id |-> "hash", name |-> "Hash"],
       [id |-> "io", name |-> "IO"],
       [id |-> "integer", name |-> "Integer"],
       [id |-> "kernel", name |-> "Kernel"],
       [id |-> "loaderror", name |-> "LoadError"],
       [id |-> "method", name |-> "Method"],
       [id |-> "module", name |-> "Module"],
       [id |-> "nameerror", name |-> "NameError"],
       [id |-> "nilclass", name |-> "NilClass"],
       [id |-> "numeric", name |-> "Numeric"],
       [id |-> "object", name |-> "Object"],
       [id |-> "pathname", name |-> "Pathname"],
       [id |-> "process", name |-> "Process"],
       [id |-> "range", name |-> "Range"],
       [id |-> "regexp", name |-> "Regexp"],
       [id |-> "securerandom", name |-> "SecureRandom"],
       [id |-> "singleton", name |-> "Singleton"],
       [id |-> "string", name |-> "String"],
       [id |-> "symbol", name |-> "Symbol"],
       [id |-> "thread", name |-> "Thread"],
       [id |-> "time", name |-> "Time"],
       [id |-> "trueclass", name |-> "TrueClass"],
       [id |-> "uri", name |-> "URI"],
       [id |-> "unboundmethod", name |-> "UnboundMethod"],
       [id |-> "calculations", name |-> "DateAndTime::Calculations"],
       [id |-> "compatibility", name |-> "DateAndTime::Compatibility"],
       [id |-> "zones", name |-> "DateAndTime::Zones"],
       [id |-> "uuid", name |-> "Digest::UUID"],
       [id |-> "util", name |-> "ERB::Util"],
       [id |-> "concerning", name |-> "Module::Concerning"],
       [id |-> "backtrace", name |-> "Thread::Backtrace"] >>

Separator == "::"

\* Index of the first "::" in s, 0 when there is none.
SeparatorAt(s) ==
    LET at == Occurrences(s, Separator)
    IN  IF at = {} THEN 0 ELSE CHOOSE i \in at : \A j \in at : i <= j

\* "::" in sec_name
IsCompound(sec_name) == SeparatorAt(sec_name) # 0

\* sec_name.split("::", 1)
SplitParent(sec_name) == SubSeq(sec_name, 1, SeparatorAt(sec_name) - 1)
SplitChild(sec_name) == SubSeq(sec_name, SeparatorAt(sec_name) + 2, Len(sec_name))

\* What the two detection loops read of each entry, lower-cased once.
CatalogTokens ==
    [k \in 1..Len(RAILS_API_SECTIONS) |->
        LET e == RAILS_API_SECTIONS[k] IN
        [id       |-> e.id,
         compound |-> IsCompound(e.name),
         lid      |-> Lower(e.id),
         lname    |-> Lower(e.name),
         lparent  |-> IF IsCompound(e.name) THEN Lower(SplitParent(e.name)) ELSE "",
         lchild   |-> IF IsCompound(e.name) THEN Lower(SplitChild(e.name)) ELSE ""]]

----------------------------------------------------------------------------
(* The parsed document. *)

\* find_all(['h1', 'h2', 'h3', 'p', 'div', 'code'])
SearchTags == {"h1", "h2", "h3", "p", "div", "code"}
\* find_all(['h1', 'h2', 'h3'])
HeaderTags == {"h1", "h2", "h3"}
\* find_parent(['section', 'div'])
ContainerTags == {"section", "div"}

\* Element j lies inside element i.
IsInside(doc, i, j) ==
    /\ i < j
    /\ \A k \in (i + 1)..j : doc[k].depth > doc[i].depth

DocumentOrder(doc) == [k \in 1..Len(doc) |-> k]

\* root.find_all(tags): the elements inside root (0: the whole soup) with one
\* of the tags, in document order.
FindAll(doc, root, tags) ==
    SelectSeq(DocumentOrder(doc),
              LAMBDA j : /\ root = 0 \/ IsInside(doc, root, j)
                         /\ doc[j].tag \in tags)

\* element.find_parent(tags): the nearest enclosing element with one of the
\* tags, 0 (None) when there is none.
FindParent(doc, i, tags) ==
    LET enclosing == {j \in 1..(i - 1) : IsInside(doc, j, i) /\ doc[j].tag \in tags}
    IN  IF enclosing = {} THEN 0
        ELSE CHOOSE j \in enclosing : \A k \in enclosing : k <= j

RECURSIVE JoinText(_, _, _, _)
JoinText(doc, i, j, strip) ==
    IF j > Len(doc) \/ (j # i /\ ~IsInside(doc, i, j)) THEN ""
    ELSE (IF strip THEN Strip(doc[j].text) ELSE doc[j].text)
         \o JoinText(doc, i, j + 1, strip)

\* element.get_text(strip=strip): the strings of the element and of everything
\* inside it, each stripped when strip is set, joined without a separator.
GetText(doc, i, strip) == JoinText(doc, i, i, strip)

----------------------------------------------------------------------------
(* The inputs. *)

\* The elements generated documents are built from.
Elements ==
    { [tag |-> "div",     text |-> " ",          id |-> "methods"],
      [tag |-> "p",       text |-> " ERB Util Digest UUID ", id |-> ""],
      [tag |-> "h1",      text |-> "IO Rails",    id |-> ""],
      [tag |-> "section", text |-> "io",          id |-> ""] }

\* Nesting depths in a generated document: top level, or one level down.
Depths == {0, 1}

Nodes ==
    { [tag |-> e.tag, text |-> e.text, id |-> e.id, depth |-> d] :
        e \in Elements, d \in Depths }

\* Depths of a document order: the first element is at the top, and an
\* element is at most one level below the one before it.
WellFormed(doc) ==
    /\ Len(doc) > 0 => doc[1].depth = 0
    /\ \A i \in 2..Len(doc) : doc[i].depth <= doc[i - 1].depth + 1

Docs ==
    UNION { {doc \in [1..n -> Nodes] : WellFormed(doc)} : n \in 0..MaxElems }

Queries == {"", "R", "io"}
Sections == {None, "", "rails"}
Limits == 0..MaxLimit

Node(tag, text, id, depth) == [tag |-> tag, text |-> text, id |-> id, depth |-> depth]

\* tests/test_server.py, mock_html_content
MockHtmlContent ==
    << Node("div", " ", "", 0),
       Node("h1", "Rails API Documentation", "", 1),
       Node("section", " ", "", 1),
       Node("h1", "ActiveRecord Basics", "", 2),
       Node("p", "Active Record is the M in MVC", "", 2),
       Node("div", " ", "methods", 2),
       Node("h2", "Methods", "", 3),
       Node("code", "find(id)", "", 3),
       Node("section", " ", "", 1),
       Node("h1", "Action Pack Overview", "", 2),
       Node("p", "Action Pack handles routing and controllers", "", 2) >>

\* tests/test_server.py, multi_section_content
MultiSectionContent ==
    << Node("div", " ", "", 0),
       Node("h1", "Rails API Documentation", "", 1),
       Node("section", " ", "", 1),
       Node("h1", "Action Controller Overview", "", 2),
       Node("p", "Action Controller is the C in MVC", "", 2),
       Node("section", " ", "", 1),
       Node("h1", "Active Record Basics", "", 2),
       Node("p", "Active Record is the M in MVC", "", 2),
       Node("section", " ", "", 1),
       Node("h1", "Action View Overview", "", 2),
       Node("p", "Action View is the V in MVC", "", 2) >>

\* The calls of search_api_docs the tests make.
TestSearches ==
    { [content |-> MockHtmlContent, query |-> "active record",
       section |-> "activerecord", limit |-> 10],
      [content |-> MockHtmlContent, query |-> "pack",
       section |-> None, limit |-> 10],
      [content |-> MultiSectionContent, query |-> "mvc",
       section |-> None, limit |-> 10] }

Searches ==
    [content : Docs, query : Queries, section : Sections, limit : Limits]
        \cup TestSearches

\* A value of call_tool's arguments dict: a key left out, null, a string or
\* an integer.
Absent == [kind |-> "absent", str |-> "", int |-> 0]
Null == [kind |-> "null", str |-> "", int |-> 0]
StrArg(s) == [kind |-> "str", str |-> s, int |-> 0]
IntArg(n) == [kind |-> "int", str |-> "", int |-> n]

Arguments(q, sec, lim) ==
    [mapping |-> TRUE, query |-> q, section |-> sec, limit |-> lim]

\* arguments that is no dict at all.
NotAMapping ==
    [mapping |-> FALSE, query |-> Absent, section |-> Absent, limit |-> Absent]

\* The payloads call_tool is given: those of the tests, and malformed ones.
ToolArguments ==
    { Arguments(StrArg("test"), StrArg("activerecord"), IntArg(5)),
      Arguments(StrArg("test"), Absent, IntArg(5)),
      Arguments(StrArg("io"), Null, Absent),
      Arguments(StrArg("R"), StrArg(""), IntArg(0)),
      Arguments(Absent, Absent, Absent),
      Arguments(IntArg(7), Absent, Absent),
      Arguments(StrArg("test"), IntArg(7), Absent),
      Arguments(StrArg("test"), Absent, StrArg("many")),
      NotAMapping }

ToolNames == {"search", "lookup"}

\* tests/test_server.py, test_call_tool: "<html><h1>Test</h1></html>"
TestToolContent == << Node("html", "", "", 0), Node("h1", "Test", "", 1) >>

\* A file that exists and cannot be read.
Unreadable == << Node("<unreadable>", "", "", 0) >>

DocsPaths == {"docs/rails_api.html", "docs/activerecord.html"}

\* The docs directory: each file is missing, unreadable or holds a document.
FileSystems ==
    [DocsPaths -> {Missing, Unreadable, TestToolContent, MockHtmlContent}]

\* Every document search_api_docs is given.
Contents ==
    Docs \cup { s.content : s \in TestSearches } \cup {TestToolContent}

\* The extracted texts of the elements of these documents.
ElementTexts ==
    UNION { { GetText(doc, i, TRUE) : i \in 1..Len(doc) } : doc \in Contents }

----------------------------------------------------------------------------
(* search_api_docs, one matching element. *)

\* query.lower() in text.lower()
IsMatch(q, text) == Contains(Lower(text), Lower(q))

\* The title of element i: the first heading of the nearest enclosing
\* section or div, or the fallback.
SectionTitle(doc, i) ==
    LET section_elem == FindParent(doc, i, ContainerTags)
        headers == IF section_elem = 0 THEN <<>>
                   ELSE FindAll(doc, section_elem, HeaderTags)
        section_title == IF headers = <<>> THEN ""
                         ELSE GetText(doc, headers[1], FALSE)
    IN  IF section_title # "" THEN section_title ELSE "Untitled Section"

\* The first loop over the catalog, from entry k on: the identifier of the
\* first compound entry whose parent and child both occur in the text.
RECURSIVE MatchCompound(_, _)
MatchCompound(ltext, k) ==
    IF k > Len(CatalogTokens) THEN "general"
    ELSE IF /\ CatalogTokens[k].compound
            /\ Contains(ltext, CatalogTokens[k].lparent)
            /\ Contains(ltext, CatalogTokens[k].lchild)
         THEN CatalogTokens[k].id
         ELSE MatchCompound(ltext, k + 1)

\* The second loop, from entry k on: the identifier of the first simple entry
\* whose identifier or display name occurs in the text.
RECURSIVE MatchSimple(_, _)
MatchSimple(ltext, k) ==
    IF k > Len(CatalogTokens) THEN "general"
    ELSE IF /\ ~CatalogTokens[k].compound
            /\ \/ Contains(ltext, CatalogTokens[k].lid)
               \/ Contains(ltext, CatalogTokens[k].lname)
         THEN CatalogTokens[k].id
         ELSE MatchSimple(ltext, k + 1)

\* Detection with the two loops in the other order: simple entries first.
DetectSection_SimpleFirst(text) ==
    LET simple == MatchSimple(Lower(text), 1)
    IN  IF simple = "general" THEN MatchCompound(Lower(text), 1) ELSE simple

\* The second loop without its break, from entry k on: the last simple entry
\* that occurs in the text wins.
RECURSIVE MatchSimpleNoBreak(_, _, _)
MatchSimpleNoBreak(ltext, k, found) ==
    IF k > Len(CatalogTokens) THEN found
    ELSE IF /\ ~CatalogTokens[k].compound
            /\ \/ Contains(ltext, CatalogTokens[k].lid)
               \/ Contains(ltext, CatalogTokens[k].lname)
         THEN MatchSimpleNoBreak(ltext, k + 1, CatalogTokens[k].id)
         ELSE MatchSimpleNoBreak(ltext, k + 1, found)

\* Detection whose second loop does not stop at the first match.
DetectSection_LastSimple(text) ==
    LET nested == MatchCompound(Lower(text), 1)
    IN  IF nested = "general" THEN MatchSimpleNoBreak(Lower(text), 1, "general")
        ELSE nested

\* Section detection on an element's text: the compound entries first, the
\* simple ones only if detected_section is still "general".
ScanCatalog(text) ==
    LET nested == MatchCompound(Lower(text), 1)
    IN  IF nested = "general" THEN MatchSimple(Lower(text), 1) ELSE nested

\* ScanCatalog, worked out once for each text of the inputs.
DetectedSections == [text \in ElementTexts |-> ScanCatalog(text)]

DetectSection(text) == DetectedSections[text]

\* detected_section without the "if not section" guard: detection always runs.
ResolveSection_AlwaysDetect(sec, text) ==
    [section |-> DetectSection(text), scans |-> 1]

\* detected_section for a match, and how many times the catalog was scanned
\* for it: section or "general", then detection if not section.
ResolveSection(sec, text) ==
    IF Truthy(sec) THEN [section |-> sec, scans |-> 0]
    ELSE [section |-> DetectSection(text), scans |-> 1]

\* len(query)/len(text) if text else 0, kept as a fraction.
Relevance(q, text) ==
    IF text # "" THEN [num |-> Len(q), den |-> Len(text)]
    ELSE [num |-> 0, den |-> 1]

RelGreater(a, b) == a.num * b.den > b.num * a.den
RelEqual(a, b) == a.num * b.den = b.num * a.den

\* The SearchResult of element i; elem records which element it came from.
MakeResult(doc, i, q, sec) ==
    LET text == GetText(doc, i, TRUE) IN
    [title     |-> SectionTitle(doc, i),
     content   |-> text,
     path      |-> IF doc[i].id # "" THEN "#" \o doc[i].id ELSE "",
     section   |-> ResolveSection(sec, text).section,
     relevance |-> Relevance(q, text),
     elem      |-> i]

\* Insert m behind every entry whose relevance is at least its own.
RECURSIVE InsertByRelevance(_, _)
InsertByRelevance(sorted, m) ==
    IF sorted = <<>> THEN << m >>
    ELSE IF RelGreater(m.relevance, Head(sorted).relevance)
         THEN << m >> \o sorted
         ELSE << Head(sorted) >> \o InsertByRelevance(Tail(sorted), m)

\* The results left in the order they were collected.
SortedByRelevance_Unsorted(rs) == rs

RECURSIVE SortInto(_, _)
SortInto(sorted, rest) ==
    IF rest = <<>> THEN sorted
    ELSE SortInto(InsertByRelevance(sorted, Head(rest)), Tail(rest))

\* sorted(results, key=lambda x: x['relevance'], reverse=True): stable.
SortedByRelevance(rs) == SortInto(<<>>, rs)

----------------------------------------------------------------------------
(* search_api_docs as steps.  No step of the loop raises on a parsed         *)
(* document, so the except branch of the function has no action.           *)

\* find_all over every tag instead of the six listed.
Candidates_EveryTag ==
    SelectSeq(DocumentOrder(content), LAMBDA j : TRUE)

\* The elements the loop visits.
Candidates == FindAll(content, 0, SearchTags)

InitSearch ==
    /\ \E s \in Searches :
        /\ content = s.content
        /\ query = s.query
        /\ section = s.section
        /\ limit = s.limit
    /\ entry = "search_api_docs"
    /\ pc = "loop"
    /\ name = ""
    /\ arguments = << >>
    /\ fs = << >>
    /\ pos = 1
    /\ results = << >>
    /\ detectRuns = 0
    /\ response = NoResponse
    /\ error = NoError
    /\ calls = << >>
    /\ output = << >>

\* The loop body for an element whose text does not hold the query.
LoopSkip ==
    /\ pc = "loop"
    /\ pos <= Len(Candidates)
    /\ ~IsMatch(query, GetText(content, Candidates[pos], TRUE))
    /\ pos' = pos + 1
    /\ UNCHANGED << pc, entry, name, arguments, fs, content, query, section,
                    limit, results, detectRuns, response, error, calls, output >>

\* The loop body for a matching element: append its result, and break once
\* the list holds limit results.
LoopCollect ==
    /\ pc = "loop"
    /\ pos <= Len(Candidates)
    /\ LET i == Candidates[pos]
           text == GetText(content, i, TRUE)
       IN  /\ IsMatch(query, text)
           /\ results' = Append(results, MakeResult(content, i, query, section))
           /\ detectRuns' = detectRuns + ResolveSection(section, text).scans
    /\ IF Len(results') >= limit
       THEN pc' = "sorted" /\ pos' = pos
       ELSE pc' = "loop" /\ pos' = pos + 1
    /\ UNCHANGED << entry, name, arguments, fs, content, query, section,
                    limit, response, error, calls, output >>

\* The loop runs out of elements.
LoopExhausted ==
    /\ pc = "loop"
    /\ pos > Len(Candidates)
    /\ pc' = "sorted"
    /\ UNCHANGED << entry, name, arguments, fs, content, query, section, limit,
                    pos, results, detectRuns, response, error, calls, output >>

\* return {"matches": sorted(...), "total": len(results), ...}
ReturnResponse ==
    /\ pc = "sorted"
    /\ response' = [matches |-> SortedByRelevance(results),
                    total   |-> Len(results),
                    query   |-> query,
                    section |-> section]
    /\ pc' = IF entry = "call_tool" THEN "dumps" ELSE "returned"
    /\ UNCHANGED << entry, name, arguments, fs, content, query, section, limit,
                    pos, results, detectRuns, error, calls, output >>

----------------------------------------------------------------------------
(* read_resource and call_tool. *)

DefaultLimit == 10

\* get_docs_path(section)
GetDocsPath(sec) ==
    IF Truthy(sec) THEN "docs/" \o sec \o ".html" ELSE "docs/rails_api.html"

\* The host of AnyUrl(f"rails-api://{params.section or 'all'}")
UriHost(sec) == IF Truthy(sec) THEN sec ELSE "all"

\* read_resource(uri): what it returns, or the McpError it raises.
ReadResource(files, host) ==
    LET sec == IF host # "all" THEN host ELSE None
        docs_path == GetDocsPath(sec)
    IN  IF docs_path \notin DOMAIN files \/ files[docs_path] = Missing
        THEN [raised |-> McpError("INVALID_PARAMS",
                            "Documentation not found for section: " \o StrOf(sec)),
              value |-> << >>]
        ELSE IF files[docs_path] = Unreadable
        THEN [raised |-> McpError("INTERNAL_ERROR", "Failed to read documentation"),
              value |-> << >>]
        ELSE [raised |-> NoError, value |-> files[docs_path]]

\* The check of the tool name left out.
KnownTool_Any(tool) == TRUE

\* name != "search" is rejected.
KnownTool(tool) == tool = "search"

\* SearchParams(**arguments) succeeds: a dict with a string query, a string
\* or null or no section, an integer or no limit.
ValidArguments(args) ==
    /\ args.mapping
    /\ args.query.kind = "str"
    /\ args.section.kind \in {"str", "null", "absent"}
    /\ args.limit.kind \in {"int", "absent"}

\* The fields of SearchParams(**arguments), defaults filled in.
SearchParams(args) ==
    [query   |-> args.query.str,
     section |-> IF args.section.kind = "str" THEN args.section.str ELSE None,
     limit   |-> IF args.limit.kind = "int" THEN args.limit.int ELSE DefaultLimit]

InitTool ==
    /\ name \in ToolNames
    /\ arguments \in ToolArguments
    /\ fs \in FileSystems
    /\ entry = "call_tool"
    /\ pc = "call_tool"
    /\ content = << >>
    /\ query = ""
    /\ section = None
    /\ limit = 0
    /\ pos = 1
    /\ results = << >>
    /\ detectRuns = 0
    /\ response = NoResponse
    /\ error = NoError
    /\ calls = << >>
    /\ output = << >>

\* if name != "search": raise McpError(INVALID_PARAMS, ...)
RejectTool ==
    /\ pc = "call_tool"
    /\ ~KnownTool(name)
    /\ error' = McpError("INVALID_PARAMS", "Unknown tool: " \o name)
    /\ pc' = "raised"
    /\ UNCHANGED << entry, name, arguments, fs, content, query, section, limit,
                    pos, results, detectRuns, response, calls, output >>

AcceptTool ==
    /\ pc = "call_tool"
    /\ KnownTool(name)
    /\ pc' = "SearchParams"
    /\ UNCHANGED << entry, name, arguments, fs, content, query, section, limit,
                    pos, results, detectRuns, response, error, calls, output >>

\* SearchParams(**arguments) raises: McpError(INVALID_PARAMS, ...)
RejectArguments ==
    /\ pc = "SearchParams"
    /\ ~ValidArguments(arguments)
    /\ error' = McpError("INVALID_PARAMS", "Invalid search parameters")
    /\ pc' = "raised"
    /\ UNCHANGED << entry, name, arguments, fs, content, query, section, limit,
                    pos, results, detectRuns, response, calls, output >>

AcceptArguments ==
    /\ pc = "SearchParams"
    /\ ValidArguments(arguments)
    /\ query' = SearchParams(arguments).query
    /\ section' = SearchParams(arguments).section
    /\ limit' = SearchParams(arguments).limit
    /\ pc' = "read_resource"
    /\ UNCHANGED << entry, name, arguments, fs, content, pos, results,
                    detectRuns, response, error, calls, output >>

\* await read_resource(...) raises; except Exception wraps whatever it was
\* into McpError(INTERNAL_ERROR, "Search operation failed: ...").
ReadFails ==
    /\ pc = "read_resource"
    /\ LET read == ReadResource(fs, UriHost(section))
       IN  /\ read.raised # NoError
           /\ error' = McpError("INTERNAL_ERROR",
                                "Search operation failed: " \o read.raised.message)
    /\ calls' = Append(calls, "read_resource")
    /\ pc' = "raised"
    /\ UNCHANGED << entry, name, arguments, fs, content, query, section, limit,
                    pos, results, detectRuns, response, output >>

\* content = await read_resource(...)
ReadReturns ==
    /\ pc = "read_resource"
    /\ LET read == ReadResource(fs, UriHost(section))
       IN  /\ read.raised = NoError
           /\ content' = read.value
    /\ calls' = Append(calls, "read_resource")
    /\ pc' = "search_api_docs"
    /\ UNCHANGED << entry, name, arguments, fs, query, section, limit, pos,
                    results, detectRuns, response, error, output >>

\* results = await search_api_docs(content, params.query, params.section,
\* params.limit)
CallSearch ==
    /\ pc = "search_api_docs"
    /\ calls' = Append(calls, "search_api_docs")
    /\ pos' = 1
    /\ results' = << >>
    /\ pc' = "loop"
    /\ UNCHANGED << entry, name, arguments, fs, content, query, section, limit,
                    detectRuns, response, error, output >>

\* return [TextContent(type="text", text=json.dumps(results, indent=2))]; the
\* text is kept as the dict it encodes.
ReturnText ==
    /\ pc = "dumps"
    /\ output' = << [type |-> "text", text |-> response] >>
    /\ pc' = "returned"
    /\ UNCHANGED << entry, name, arguments, fs, content, query, section, limit,
                    pos, results, detectRuns, response, error, calls >>

----------------------------------------------------------------------------

Init == InitSearch \/ InitTool

Next ==
    \/ LoopSkip
    \/ LoopCollect
    \/ LoopExhausted
    \/ ReturnResponse
    \/ RejectTool
    \/ AcceptTool
    \/ RejectArguments
    \/ AcceptArguments
    \/ ReadFails
    \/ ReadReturns
    \/ CallSearch
    \/ ReturnText

Spec == Init /\ [][Next]_vars

----------------------------------------------------------------------------
(* What the claims read. *)

\* search_api_docs has returned its dict.
Responded == response # NoResponse

Matches == response.matches

\* The candidate elements whose extracted text holds the query, whatever the
\* case of either.
MatchingElements ==
    { i \in 1..Len(content) :
        /\ content[i].tag \in SearchTags
        /\ Contains(Lower(GetText(content, i, TRUE)), Lower(query)) }

\* The first n members of a set of element positions.
FirstOf(S, n) == { i \in S : Cardinality({ j \in S : j <= i }) <= n }

Min(a, b) == IF a <= b THEN a ELSE b

\* The catalog entries (by position) that occur in a lower-cased text: the
\* compound ones with both their tokens, the simple ones with their
\* identifier or display name.
CompoundHits(ltext) ==
    { k \in 1..Len(CatalogTokens) :
        /\ CatalogTokens[k].compound
        /\ Contains(ltext, CatalogTokens[k].lparent)
        /\ Contains(ltext, CatalogTokens[k].lchild) }

SimpleHits(ltext) ==
    { k \in 1..Len(CatalogTokens) :
        /\ ~CatalogTokens[k].compound
        /\ \/ Contains(ltext, CatalogTokens[k].lid)
           \/ Contains(ltext, CatalogTokens[k].lname) }

CatalogHits ==
    [text \in ElementTexts |->
        [compound |-> CompoundHits(Lower(text)), simple |-> SimpleHits(Lower(text))]]

Least(S) == CHOOSE k \in S : \A j \in S : k <= j

----------------------------------------------------------------------------
(* The claims. *)

\* C1: for every content, query, section and integer limit, the returned
\* matches list holds at most limit entries.
C1_MatchesWithinLimit ==
    Responded => Len(Matches) <= limit

\* C2: the returned matches are ordered by relevance descending, and matches
\* of equal relevance keep the order in which their elements were met in
\* the document.
C2_SortedStable ==
    Responded =>
        \A i, j \in 1..Len(Matches) :
            i < j =>
                LET a == Matches[i].relevance
                    b == Matches[j].relevance
                IN  /\ a.num * b.den >= b.num * a.den
                    /\ a.num * b.den = b.num * a.den
                          => Matches[i].elem < Matches[j].elem

\* C2 witness: a response of three matches, two of them of equal relevance,
\* that the sort had to reorder.
C2_Witness ==
    /\ Responded
    /\ Len(Matches) = 3
    /\ Matches # results
    /\ \E i, j \in 1..3 :
        /\ i < j
        /\ Matches[i].relevance = Matches[j].relevance
        /\ Matches[i].relevance.num > 0

\* C3 as stated: if a section value is supplied, every match's section is
\* that value and the catalog is never scanned to detect one.
C3_SuppliedSectionKept ==
    section # None =>
        /\ detectRuns = 0
        /\ \A i \in 1..Len(results) : results[i].section = section
        /\ \A i \in 1..Len(Matches) : Matches[i].section = section

\* C3 amended: if a non-empty section value is supplied, every match's
\* section is that value and the catalog is never scanned to detect one.
C3_NonEmptySectionKept ==
    (section # None /\ section # "") =>
        /\ detectRuns = 0
        /\ \A i \in 1..Len(results) : results[i].section = section
        /\ \A i \in 1..Len(Matches) : Matches[i].section = section

\* C3 witness: a response under a supplied section with a match whose text
\* names another section of the catalog.
C3_Witness ==
    /\ Responded
    /\ section = "rails"
    /\ \E i \in 1..Len(Matches) :
        /\ Matches[i].section = "rails"
        /\ CatalogHits[Matches[i].content].compound # {}

\* C4: searching the test's three-section content for "mvc" with no section
\* and limit 10 returns exactly 3 matches, whose sections are
\* actioncontroller, activerecord and actionview.
C4_MvcExample ==
    ( /\ Responded
      /\ content = MultiSectionContent
      /\ query = "mvc"
      /\ section = None
      /\ limit = 10 ) =>
        /\ Len(Matches) = 3
        /\ { Matches[i].section : i \in 1..Len(Matches) }
              = {"actioncontroller", "activerecord", "actionview"}

\* C5: when the search tool is called for a section whose documentation file
\* does not exist, the error the caller gets is InvalidParams.
C5_NotFoundIsInvalidParams ==
    ( /\ entry = "call_tool"
      /\ pc = "raised"
      /\ calls = << "read_resource" >>
      /\ fs[GetDocsPath(section)] = Missing ) =>
        error.code = "INVALID_PARAMS"

\* C6: with no section supplied, a match whose text holds both tokens of some
\* compound entry gets the identifier of the first such compound entry of
\* the catalog, never that of a simple entry.
C6_CompoundFirst ==
    (Responded /\ section = None) =>
        \A i \in 1..Len(Matches) :
            LET hits == CatalogHits[Matches[i].content].compound
            IN  hits # {} =>
                    Matches[i].section = RAILS_API_SECTIONS[Least(hits)].id

\* C6 witness: a match, with no section supplied, whose text holds the tokens
\* of two compound entries and the names of simple entries as well.
C6_Witness ==
    /\ Responded
    /\ section = None
    /\ \E i \in 1..Len(Matches) :
        /\ Cardinality(CatalogHits[Matches[i].content].compound) >= 2
        /\ CatalogHits[Matches[i].content].simple # {}

C8_NoMatchEmpty ==
    (pc \in {"sorted", "dumps", "returned"} /\ MatchingElements = {}) =>
        /\ results = << >>
        /\ error = NoError
        /\ Responded => (Matches = << >> /\ response.total = 0)

\* C8 witness: a returned search over a document that has candidate
\* elements, and holds the query only outside them.
C8_Witness ==
    /\ Responded
    /\ MatchingElements = {}
    /\ \E i \in 1..Len(content) : content[i].tag \in SearchTags
    /\ \E i \in 1..Len(content) :
          Contains(Lower(GetText(content, i, TRUE)), Lower(query))
    /\ response.total = 0

\* C9: the returned matches are, as a set, exactly the first min(limit, n) of
\* the n matching elements in document order.
C9_FirstMatchesReturned ==
    Responded =>
        { Matches[i].elem : i \in 1..Len(Matches) }
            = FirstOf(MatchingElements, Min(limit, Cardinality(MatchingElements)))

====
